---- MODULE Spec2Model ----
(***************************************************************************)
(* FinNet settlement engine (src/finnet_engine.py): the anomaly detector   *)
(* RiskEngine.detect_anomalies, the multilateral netting                   *)
(* NettingEngine.run_netting, and the dashboard script that calls them on  *)
(* the ledger kept in the session state.                                   *)
(*                                                                         *)
(* Amounts (Price, Total_Value and everything summed from them) are exact  *)
(* integers of the smallest currency unit; binary floating-point rounding  *)
(* of the sums is not modelled.  A pandas DataFrame is a record            *)
(* [columns, rows]; the columns Trade_ID, Symbol and Timestamp, which no   *)
(* computation reads, are left out.  DataFrames live in a heap of objects  *)
(* so that two names for one object (Python reference semantics) are two   *)
(* references to one heap cell.                                            *)
(***************************************************************************)
EXTENDS Integers, Sequences, FiniteSets, TLC

VARIABLES
    heap,           \* object id -> DataFrame: the DataFrame objects alive
    session_state,  \* st.session_state: key -> object id
    pc,             \* position in the script run / in the direct-call driver
    button,         \* st.button("Run AI Risk Scan") of the current rerun
    risk_threshold, \* sidebar slider "AI Risk Sensitivity" (per cent)
    tab3,           \* what the netting tab did in the current rerun
    scanned,        \* the references detect_anomalies has returned in this session
    ret             \* outcome of the last direct call of run_netting

vars == <<heap, session_state, pc, button, risk_threshold, tab3, scanned, ret>>

----------------------------------------------------------------------------
(* Bounds of the model *)

\* rows of a ledger handed to the two methods by a direct caller
MaxTrades == 2
\* rows MarketSimulator.generate_trades emits in the modelled session (n)
NumTrades == 2

(* Program constants *)

\* df.loc[0:2, 'Total_Value'] * 50
FatFingerFactor == 50
\* df.loc[0:2]: label slice, both ends included, rows 0, 1, 2
FatFingerRows == 3

\* counterparties, in the lexicographic order pandas sorts group and merge keys in
EntityOrder == <<"Citi", "Goldman Sachs", "JPMorgan">>
Entities == {EntityOrder[i] : i \in DOMAIN EntityOrder}

\* Quantity and Price drawn by the simulator (subsets of 10..999 and of 100..1500)
SimQuantities == {10}
SimPrices == {100, 150}
\* Quantity and Price of a ledger built by a direct caller (non-negative)
Quantities == {1, 2}
Prices == {0, 1}
\* slider positions of "AI Risk Sensitivity", in per cent (0.01 .. 0.1)
SliderValues == {1, 5, 10}

BaseColumns == {"Buyer", "Seller", "Quantity", "Price", "Total_Value"}

----------------------------------------------------------------------------
(* Helpers over sequences *)

RECURSIVE SumSeq(_)
SumSeq(s) == IF s = <<>> THEN 0 ELSE Head(s) + SumSeq(Tail(s))

RECURSIVE Concat(_)
Concat(ss) == IF ss = <<>> THEN <<>> ELSE Head(ss) \o Concat(Tail(ss))

Column(rows, col) == [i \in DOMAIN rows |-> rows[i][col]]

Abs(x) == IF x < 0 THEN -x ELSE x

\* the distinct keys of a column, sorted
SortedKeys(S) == SelectSeq(EntityOrder, LAMBDA e : e \in S)

----------------------------------------------------------------------------
(* DataFrames *)

HasColumn(df, col) == col \in df.columns

NumRows(df) == Len(df.rows)

\* a row of the ledger as generate_trades lays it out; Total_Value is derived
\* once, here, and never re-derived
Trade(b, s, q, p) ==
    [Buyer |-> b, Seller |-> s, Quantity |-> q, Price |-> p, Total_Value |-> q * p]

\* df.loc[0:2, 'Total_Value'] = df.loc[0:2, 'Total_Value'] * 50
InjectFatFinger(rows) ==
    [i \in DOMAIN rows |->
        IF i <= FatFingerRows
        THEN [rows[i] EXCEPT !.Total_Value = @ * FatFingerFactor]
        ELSE rows[i]]

\* the ledgers MarketSimulator.generate_trades(n) can return
generate_trades(n) ==
    { [columns |-> BaseColumns, rows |-> InjectFatFinger(rows)] :
        rows \in [1..n -> { Trade(b, s, q, p) :
                              b \in Entities, s \in Entities,
                              q \in SimQuantities, p \in SimPrices }] }

----------------------------------------------------------------------------
(* RiskEngine *)

\* IsolationForest(...).fit_predict(X): one of 1 (normal), -1 (anomaly) per row.
\* The forest is a black box: any labelling it can return, under any
\* contamination, is allowed.  It flags the rows scoring strictly below a
\* percentile of all the scores, so the best-scoring row is never flagged.
fit_predict(n) ==
    { pred \in [1..n -> {1, -1}] : n > 0 => \E i \in 1..n : pred[i] = 1 }

\* df['Anomaly_Score'] = pred, on the DataFrame passed in; return df
detect_anomalies(df, pred) ==
    [columns |-> df.columns \cup {"Anomaly_Score"},
     rows    |-> [i \in DOMAIN df.rows |-> ("Anomaly_Score" :> pred[i]) @@ df.rows[i]]]

----------------------------------------------------------------------------
(* NettingEngine *)

\* faulty variant: a lookup that falls back to "every row is normal" when the column is missing
valid_trades_default(df) ==
    [raised |-> FALSE,
     rows   |-> IF HasColumn(df, "Anomaly_Score")
                THEN SelectSeq(df.rows, LAMBDA r : r.Anomaly_Score = 1)
                ELSE df.rows]

\* df[df['Anomaly_Score'] == 1]: the rows scored 1; the lookup of a column the
\* frame does not have raises KeyError
valid_trades(df) ==
    IF HasColumn(df, "Anomaly_Score")
    THEN [raised |-> FALSE, rows |-> SelectSeq(df.rows, LAMBDA r : r.Anomaly_Score = 1)]
    ELSE [raised |-> TRUE, rows |-> <<>>]

\* rows.groupby(key)['Total_Value'].sum().reset_index(): one row per distinct
\* key, keys sorted
groupby_sum(rows, key) ==
    LET ks == SortedKeys({rows[i][key] : i \in DOMAIN rows})
    IN  [i \in DOMAIN ks |->
            [Entity |-> ks[i],
             Sum    |-> SumSeq(Column(SelectSeq(rows, LAMBDA r : r[key] = ks[i]),
                                      "Total_Value"))]]

pay_obligations(valid) ==
    LET g == groupby_sum(valid, "Buyer")
    IN  [i \in DOMAIN g |-> [Entity |-> g[i].Entity, To_Pay |-> g[i].Sum]]

\* faulty variant: the Buyer grouping copied and its key left unchanged
receive_by_buyer(valid) ==
    LET g == groupby_sum(valid, "Buyer")
    IN  [i \in DOMAIN g |-> [Entity |-> g[i].Entity, To_Receive |-> g[i].Sum]]

receive_obligations(valid) ==
    LET g == groupby_sum(valid, "Seller")
    IN  [i \in DOMAIN g |-> [Entity |-> g[i].Entity, To_Receive |-> g[i].Sum]]

\* faulty variant: how='inner', only the keys both frames hold
merge_inner(pay, recv) ==
    LET ks == SortedKeys({pay[i].Entity : i \in DOMAIN pay}
                         \cap {recv[i].Entity : i \in DOMAIN recv})
        RowsOf(k) ==
            LET L == SelectSeq(pay, LAMBDA r : r.Entity = k)
                R == SelectSeq(recv, LAMBDA r : r.Entity = k)
            IN  Concat([i \in DOMAIN L |->
                    [j \in DOMAIN R |->
                        [Entity |-> k, To_Pay |-> L[i].To_Pay,
                         To_Receive |-> R[j].To_Receive]]])
    IN  Concat([i \in DOMAIN ks |-> RowsOf(ks[i])])

\* pd.merge(pay, recv, on='Entity', how='outer').fillna(0): every pair of rows
\* with the same Entity, a row of one frame without a partner kept with the
\* other frame's column missing, the missing cells then filled with 0
merge(pay, recv) ==
    LET ks == SortedKeys({pay[i].Entity : i \in DOMAIN pay}
                         \cup {recv[i].Entity : i \in DOMAIN recv})
        RowsOf(k) ==
            LET L == SelectSeq(pay, LAMBDA r : r.Entity = k)
                R == SelectSeq(recv, LAMBDA r : r.Entity = k)
            IN  IF L = <<>>
                THEN [j \in DOMAIN R |->
                        [Entity |-> k, To_Pay |-> 0, To_Receive |-> R[j].To_Receive]]
                ELSE IF R = <<>>
                THEN [i \in DOMAIN L |->
                        [Entity |-> k, To_Pay |-> L[i].To_Pay, To_Receive |-> 0]]
                ELSE Concat([i \in DOMAIN L |->
                        [j \in DOMAIN R |->
                            [Entity |-> k, To_Pay |-> L[i].To_Pay,
                             To_Receive |-> R[j].To_Receive]]])
    IN  Concat([i \in DOMAIN ks |-> RowsOf(ks[i])])

\* faulty variant: the obligations added
Net_Position_sum(row) == row.To_Receive + row.To_Pay

\* net_df['To_Receive'] - net_df['To_Pay']
Net_Position(row) == row.To_Receive - row.To_Pay

\* faulty variant: zero counted as pay
Status_le(x) == IF x <= 0 THEN "PAY TO DTCC" ELSE "RECEIVE FROM DTCC"

\* lambda x: "PAY TO DTCC" if x < 0 else "RECEIVE FROM DTCC"
Status(x) == IF x < 0 THEN "PAY TO DTCC" ELSE "RECEIVE FROM DTCC"

\* the two columns added to the merged frame
with_positions(merged) ==
    [i \in DOMAIN merged |->
        [Entity       |-> merged[i].Entity,
         To_Pay       |-> merged[i].To_Pay,
         To_Receive   |-> merged[i].To_Receive,
         Net_Position |-> Net_Position(merged[i]),
         Status       |-> Status(Net_Position(merged[i]))]]

\* valid_trades['Total_Value'].sum()
gross_volume(valid) == SumSeq(Column(valid, "Total_Value"))

\* faulty variant: the halving left out
net_volume_undivided(net_df) ==
    SumSeq([i \in DOMAIN net_df |-> Abs(net_df[i].Net_Position)])

\* abs(net_df['Net_Position']).sum() / 2; the sum is even, the positions
\* adding up to zero
net_volume(net_df) ==
    SumSeq([i \in DOMAIN net_df |-> Abs(net_df[i].Net_Position)]) \div 2

\* ((gross - net) / gross) * 100 on numpy floats: a zero divisor raises nothing
\* and yields nan (0/0) or an infinity; otherwise the exact quotient num/den
savings(gross, net) ==
    IF gross = 0
    THEN [kind |-> IF gross - net = 0 THEN "nan" ELSE "inf"]
    ELSE [kind |-> "number", num |-> (gross - net) * 100, den |-> gross]

\* NettingEngine.run_netting(df): the tuple it returns, or the exception
\* raised by the column lookup of its first line
run_netting(df) ==
    LET v == valid_trades(df)
    IN  IF v.raised
        THEN [kind |-> "KeyError", key |-> "Anomaly_Score"]
        ELSE LET net_df == with_positions(merge(pay_obligations(v.rows),
                                                receive_obligations(v.rows)))
                 gross  == gross_volume(v.rows)
                 net    == net_volume(net_df)
             IN  [kind         |-> "report",
                  net_df       |-> net_df,
                  savings      |-> savings(gross, net),
                  gross_volume |-> gross,
                  net_volume   |-> net]

----------------------------------------------------------------------------
(* The dashboard script.  Streamlit runs the whole script, top to bottom,   *)
(* once when the session opens and once more after every widget            *)
(* interaction; st.session_state outlives the runs.                        *)

NoOutcome == [kind |-> "none"]

\* faulty variant: analyzed_df stored along with df when the session opens
store_df_and_analyzed(ss, ref) == ("df" :> ref) @@ ("analyzed_df" :> ref) @@ ss

\* st.session_state.df = ...
store_df(ss, ref) == ("df" :> ref) @@ ss

\* st.session_state.analyzed_df = ...
store_analyzed_df(ss, ref) == ("analyzed_df" :> ref) @@ ss

\* the session opens: nothing stored, the first run of the script under way with
\* the button unpressed and the slider at its default, 0.05
Init ==
    /\ heap = <<>>
    /\ session_state = <<>>
    /\ pc = "init"
    /\ button = FALSE
    /\ risk_threshold = 5
    /\ tab3 = NoOutcome
    /\ scanned = {}
    /\ ret = NoOutcome

\* a widget interaction starts the next run: the button reads True only in the
\* run its click started; the slider holds whatever the user left it at
Rerun(b, t) ==
    /\ pc = "idle"
    /\ button' = b
    /\ risk_threshold' = t
    /\ tab3' = NoOutcome
    /\ pc' = "init"
    /\ UNCHANGED <<heap, session_state, scanned, ret>>

\* if 'df' not in st.session_state: st.session_state.df = generate_trades(1000)
Initialize ==
    /\ pc = "init"
    /\ IF "df" \notin DOMAIN session_state
       THEN \E ledger \in generate_trades(NumTrades) :
                /\ heap' = Append(heap, ledger)
                /\ session_state' = store_df(session_state, Len(heap) + 1)
       ELSE UNCHANGED <<heap, session_state>>
    /\ pc' = "tab2"
    /\ UNCHANGED <<button, risk_threshold, tab3, scanned, ret>>

\* with tab2: if st.button(...): analyzed_df = detect_anomalies(session_state.df);
\* session_state.analyzed_df = analyzed_df.  detect_anomalies writes the column
\* into the object its argument refers to and returns that same reference.
Tab2 ==
    /\ pc = "tab2"
    /\ IF button
       THEN LET ref == session_state["df"]
            IN  \E pred \in fit_predict(NumRows(heap[ref])) :
                    /\ heap' = [heap EXCEPT ![ref] = detect_anomalies(@, pred)]
                    /\ session_state' = store_analyzed_df(session_state, ref)
                    /\ scanned' = scanned \cup {ref}
       ELSE UNCHANGED <<heap, session_state, scanned>>
    /\ pc' = "tab3"
    /\ UNCHANGED <<button, risk_threshold, tab3, ret>>

\* with tab3: if 'analyzed_df' in st.session_state: run_netting(...) and show the
\* report; else: st.warning("Please run the AI Risk Scan first ...")
Tab3 ==
    /\ pc = "tab3"
    /\ IF "analyzed_df" \in DOMAIN session_state
       THEN LET ref == session_state["analyzed_df"]
            IN  tab3' = [kind |-> "netting", arg |-> ref, out |-> run_netting(heap[ref])]
       ELSE tab3' = [kind |-> "warning"]
    /\ pc' = "idle"
    /\ UNCHANGED <<heap, session_state, button, risk_threshold, scanned, ret>>

Next ==
    \/ \E b \in BOOLEAN, t \in SliderValues : Rerun(b, t)
    \/ Initialize
    \/ Tab2
    \/ Tab3

Spec == Init /\ [][Next]_vars

----------------------------------------------------------------------------
(* run_netting called directly on a ledger its caller supplies: unlabelled, *)
(* or labelled by any upstream labelling.                                  *)

CallerTrades ==
    { Trade(b, s, q, p) : b \in Entities, s \in Entities, q \in Quantities, p \in Prices }

Labelled(trades) ==
    { ("Anomaly_Score" :> a) @@ t : t \in trades, a \in {1, -1} }

\* a DataFrame of the given rows, with the Anomaly_Score column or without
Frame(rows, labelled) ==
    [columns |-> IF labelled THEN BaseColumns \cup {"Anomaly_Score"} ELSE BaseColumns,
     rows    |-> rows]

\* the caller holds one ledger of at most MaxTrades rows
InitNet ==
    /\ \E n \in 0..MaxTrades :
          \/ \E rows \in [1..n -> CallerTrades] : heap = <<Frame(rows, FALSE)>>
          \/ \E rows \in [1..n -> Labelled(CallerTrades)] : heap = <<Frame(rows, TRUE)>>
    /\ session_state = <<>>
    /\ pc = "caller"
    /\ button = FALSE
    /\ risk_threshold = 5
    /\ tab3 = NoOutcome
    /\ scanned = {}
    /\ ret = NoOutcome

\* the caller's ledger
ledger == heap[1]

\* report = NettingEngine().run_netting(ledger)
CallNetting ==
    /\ pc = "caller"
    /\ ret' = run_netting(ledger)
    /\ UNCHANGED <<heap, session_state, pc, button, risk_threshold, tab3, scanned>>

NextNet == CallNetting

SpecNet == InitNet /\ [][NextNet]_vars

----------------------------------------------------------------------------
(* Properties of run_netting, stated over the caller's ledger and the       *)
(* outcome of the call (SpecNet)                                           *)

IsLabelled == HasColumn(ledger, "Anomaly_Score")
Called == ret.kind # "none"
Reported == ret.kind = "report"

\* the rows labelled NORMAL (score 1), by position in the ledger
NormalRows == { i \in DOMAIN ledger.rows : ledger.rows[i].Anomaly_Score = 1 }
NormalBuyers == { ledger.rows[i].Buyer : i \in NormalRows }
NormalSellers == { ledger.rows[i].Seller : i \in NormalRows }
NormalTotal ==
    SumSeq([i \in DOMAIN ledger.rows |->
              IF i \in NormalRows THEN ledger.rows[i].Total_Value ELSE 0])

ReportedEntities(r) == { r.net_df[i].Entity : i \in DOMAIN r.net_df }

\* a column of entity e's row in report r, 0 when e has no row
Cell(r, e, col) ==
    SumSeq(Column(SelectSeq(r.net_df, LAMBDA row : row.Entity = e), col))

\* C1: netting conservation: in every report the To_Pay column and the
\* To_Receive column both add up to gross_volume, which is the total value of the
\* trades labelled NORMAL.
C1_Conservation ==
    Reported =>
        /\ SumSeq(Column(ret.net_df, "To_Pay")) = ret.gross_volume
        /\ SumSeq(Column(ret.net_df, "To_Receive")) = ret.gross_volume
        /\ ret.gross_volume = NormalTotal

C1_Witness ==
    /\ Reported
    /\ Len(ret.net_df) >= 2
    /\ ret.gross_volume > 0
    /\ \E i \in DOMAIN ledger.rows : i \notin NormalRows /\ ledger.rows[i].Total_Value > 0

\* C2: the entities of a report are exactly the buyers and sellers of the NORMAL
\* trades, one row each; an entity that never sells among them has To_Receive 0
\* and one that never buys has To_Pay 0.
C2_EntitySet ==
    Reported =>
        /\ ReportedEntities(ret) = NormalBuyers \cup NormalSellers
        /\ Len(ret.net_df) = Cardinality(NormalBuyers \cup NormalSellers)
        /\ \A i \in DOMAIN ret.net_df :
              /\ ret.net_df[i].Entity \notin NormalSellers => ret.net_df[i].To_Receive = 0
              /\ ret.net_df[i].Entity \notin NormalBuyers => ret.net_df[i].To_Pay = 0

C2_Witness ==
    /\ Reported
    /\ \E i \in DOMAIN ledger.rows :
          /\ i \notin NormalRows
          /\ ledger.rows[i].Buyer \notin NormalBuyers \cup NormalSellers
    /\ NormalBuyers \ NormalSellers # {}
    /\ NormalSellers \ NormalBuyers # {}

\* C3: net-volume bound: 0 <= net_volume <= gross_volume, net_volume being half
\* the sum of the absolute net positions; and with gross_volume > 0 the savings
\* percentage is a number in [0, 100].
C3_NetVolumeBound ==
    Reported =>
        /\ 0 <= ret.net_volume
        /\ ret.net_volume <= ret.gross_volume
        /\ 2 * ret.net_volume =
              SumSeq([i \in DOMAIN ret.net_df |-> Abs(ret.net_df[i].Net_Position)])
        /\ ret.gross_volume > 0 =>
              /\ ret.savings.kind = "number"
              /\ 0 <= ret.savings.num
              /\ ret.savings.num <= 100 * ret.savings.den

C3_Witness ==
    /\ Reported
    /\ 0 < ret.net_volume
    /\ ret.net_volume < ret.gross_volume

\* C4: with every trade of the labelled ledger ANOMALOUS, the call fails with
\* NoSettlableTrades and returns no report.
C4_NoSettlableTrades ==
    (IsLabelled /\ Len(ledger.rows) >= 1 /\ NormalRows = {} /\ Called) => ret.kind = "NoSettlableTrades"

\* C5: with NORMAL trades present whose values add up to 0, the call fails with
\* DegenerateVolume instead of returning an undefined savings percentage.
C5_DegenerateVolume ==
    (IsLabelled /\ NormalRows # {} /\ NormalTotal = 0 /\ Called) =>
        ret.kind = "DegenerateVolume"

C8_PositionAndStatus ==
    Reported =>
        \A i \in DOMAIN ret.net_df :
            LET row == ret.net_df[i]
            IN  /\ row.Net_Position = row.To_Receive - row.To_Pay
                /\ row.Status \in {"PAY TO DTCC", "RECEIVE FROM DTCC"}
                /\ row.Status = "PAY TO DTCC" <=> row.Net_Position < 0
                /\ row.Net_Position = 0 => row.Status = "RECEIVE FROM DTCC"

C8_Witness ==
    /\ Reported
    /\ \E i \in DOMAIN ret.net_df :
          /\ ret.net_df[i].Net_Position = 0
          /\ ret.net_df[i].To_Pay > 0
          /\ ret.net_df[i].Status = "RECEIVE FROM DTCC"

\* the ledger without its i-th row
WithoutRow(df, i) ==
    [df EXCEPT !.rows = SubSeq(df.rows, 1, i - 1) \o SubSeq(df.rows, i + 1, Len(df.rows))]

\* the NORMAL rows whose buyer is their seller
SelfTrades == { i \in NormalRows : ledger.rows[i].Buyer = ledger.rows[i].Seller }

\* C10: self-trade neutrality: the report of a ledger and the report of the same
\* ledger without one NORMAL trade whose buyer is its seller differ only in
\* gross_volume and in that entity's To_Pay and To_Receive, each by the trade's
\* Total_Value; every net position (an entity without a row counting as 0) and
\* net_volume are the same.
C10_SelfTradeNeutral ==
    Reported =>
        \A i \in SelfTrades :
            LET t == ledger.rows[i]
                without == run_netting(WithoutRow(ledger, i))
            IN  /\ without.kind = "report"
                /\ ret.gross_volume = without.gross_volume + t.Total_Value
                /\ ret.net_volume = without.net_volume
                /\ \A e \in Entities :
                      /\ Cell(ret, e, "Net_Position") = Cell(without, e, "Net_Position")
                      /\ Cell(ret, e, "To_Pay") = Cell(without, e, "To_Pay")
                            + (IF e = t.Buyer THEN t.Total_Value ELSE 0)
                      /\ Cell(ret, e, "To_Receive") = Cell(without, e, "To_Receive")
                            + (IF e = t.Seller THEN t.Total_Value ELSE 0)
                      /\ e # t.Buyer =>
                            (e \in ReportedEntities(ret) <=> e \in ReportedEntities(without))

C10_Witness ==
    /\ Reported
    /\ \E i \in SelfTrades, j \in NormalRows :
          /\ ledger.rows[i].Total_Value > 0
          /\ ledger.rows[j].Buyer # ledger.rows[j].Seller
          /\ ledger.rows[j].Total_Value > 0
          /\ ledger.rows[i].Buyer \in {ledger.rows[j].Buyer, ledger.rows[j].Seller}

----------------------------------------------------------------------------
(* Properties of the dashboard session (Spec)                              *)

\* C7: sequencing: the netting tab calls run_netting only once detect_anomalies
\* has returned in this session, and on the ledger it labelled; as long as no
\* scan has run, a finished run of the script has shown the warning instead.
C7_Sequencing ==
    /\ tab3.kind = "netting" =>
          /\ scanned # {}
          /\ tab3.arg \in scanned
          /\ HasColumn(heap[tab3.arg], "Anomaly_Score")
    /\ (scanned = {} /\ pc = "idle") => tab3.kind = "warning"

C7_Witness ==
    /\ tab3.kind = "netting"
    /\ ~button
    /\ risk_threshold = 10
    /\ tab3.out.kind = "report"

\* C9: detect_anomalies leaves the object passed to it as it was: the raw ledger
\* stored in the session is the same before and after a scan.
C9_NoSideEffects ==
    [][(pc = "tab2" /\ button) =>
          heap'[session_state["df"]] = heap[session_state["df"]]]_vars

====
